---- MODULE Spec2Model ----
(***************************************************************************)
(* Combine-BIDS-Sessions, run.py: interface() and make_unisession_files(). *)
(*                                                                         *)
(* A filename is kept as its tokens: the sequence of key-value entities    *)
(* ("sub-X", "ses-01", "task-rest", "run-01", ...) that the underscores    *)
(* separate, then the suffix and the extension.  Render gives the string.  *)
(* The regular expressions of run.py act on whole tokens of such a name:   *)
(* "_ses-[^_]+" and "_run-[\d]+" need the underscore in front, so they     *)
(* match a token that is not the first one; "task-[^_]+" matches anywhere. *)
(* A run index of a BIDS name is a string of digits, so "[\d]+" takes the  *)
(* whole value of a run token.                                             *)
(***************************************************************************)
EXTENDS Integers, Sequences, FiniteSets, TLC

VARIABLES
    layout,            \* BIDSLayout: the subject's files, in the natural
                       \* order of their paths, which is its listing order
    direction_key,     \* the name the layout's configuration gives the
                       \* entity of a filename's dir- token
    arg_session_list,  \* --session-list as given (<<>>: not given)
    session_list,      \* the local session_list of interface()
    t1_session_label,  \* --t1-session-label, or None
    t2_session_label,  \* --t2-session-label, or None
    pc,                \* where interface() is
    error,             \* the assertion or exception that ended the run
    dirs,              \* directories made under the output tree
    niftis,            \* written data files: destination path -> source path
    jsons,             \* written metadata files: destination path -> content
    copies,            \* the calls of make_unisession_files, in order
    warnings,          \* logging.warning calls, in order
    task_list, t1w_sessions, t2w_sessions,
    t1ws, t2ws, all_fmaps, funcs,
    gen_fmaps, aps, pas,
    si,                \* index into session_list of the collecting loop
    ti,                \* index into task_list of the functional loop
    fi,                \* index into the list a copy loop walks
    run, width

vars == <<layout, direction_key, arg_session_list, session_list, t1_session_label,
          t2_session_label, pc, error, dirs, niftis, jsons, copies, warnings,
          task_list, t1w_sessions, t2w_sessions, t1ws, t2ws, all_fmaps, funcs,
          gen_fmaps, aps, pas, si, ti, fi, run, width>>

-----------------------------------------------------------------------------
(* Bounds of the checked inputs. *)

\* Longest explicit --session-list.
MaxSessionList == 3

\* Most field-map files in the session whose field maps vary.
MaxFmaps == 2

(* Program constants. *)

\* width = 2 (run.py line 297, 322, 342)
DefaultWidth == 2

\* width = 3 (run.py line 320)
WideWidth == 3

\* if num_tasks > 100 (run.py line 319)
WidthThreshold == 100

None == "None"

-----------------------------------------------------------------------------
(* Strings. *)

Range(s) == {s[i] : i \in DOMAIN s}

Digit(d) ==
    CASE d = 0 -> "0" [] d = 1 -> "1" [] d = 2 -> "2" [] d = 3 -> "3"
      [] d = 4 -> "4" [] d = 5 -> "5" [] d = 6 -> "6" [] d = 7 -> "7"
      [] d = 8 -> "8" [] d = 9 -> "9"

\* str(run)
RECURSIVE Str(_)
Str(n) == IF n < 10 THEN Digit(n) ELSE Str(n \div 10) \o Digit(n % 10)

\* s.zfill(w)
RECURSIVE ZFill(_, _)
ZFill(s, w) == IF Len(s) >= w THEN s ELSE ZFill("0" \o s, w)

\* s.upper(), on the direction labels of the checked inputs
Upper(s) ==
    CASE s = "ap" -> "AP"
      [] s = "pa" -> "PA"
      [] s = "lr" -> "LR"
      [] s = "nodir" -> "NODIR"
      [] OTHER -> s

-----------------------------------------------------------------------------
(* Filenames and files. *)

Ent(k, v) == [k |-> k, v |-> v]

\* The string of a filename.
RECURSIVE JoinEnts(_)
JoinEnts(ents) ==
    IF ents = <<>> THEN ""
    ELSE ents[1].k \o "-" \o ents[1].v \o "_" \o JoinEnts(Tail(ents))

Render(name) == JoinEnts(name.ents) \o name.suffix \o "." \o name.ext

\* The value of entity k in a name, or dflt: dict.get(k, dflt)
EntityOr(name, k, dflt) ==
    LET idx == {i \in DOMAIN name.ents : name.ents[i].k = k}
    IN IF idx = {} THEN dflt
       ELSE name.ents[CHOOSE i \in idx : \A j \in idx : i <= j].v

\* A filename's entities with every token the pattern matches replaced by
\* repl: re.sub(r'_ses-[^_]+', repl, filename)
SubSes(name, repl) ==
    LET e == name.ents
        F[i \in 0..Len(e)] ==
            IF i = 0 THEN <<>>
            ELSE F[i - 1] \o (IF i >= 2 /\ e[i].k = "ses" THEN repl ELSE <<e[i]>>)
    IN [name EXCEPT !.ents = F[Len(e)]]

\* '_run-' in new_filename
HasRun(name) == \E i \in DOMAIN name.ents : i >= 2 /\ name.ents[i].k = "run"

\* re.sub(r'_run-[\d]+', run_str, new_filename)
SubRun(name, repl) ==
    LET e == name.ents
        F[i \in 0..Len(e)] ==
            IF i = 0 THEN <<>>
            ELSE F[i - 1] \o (IF i >= 2 /\ e[i].k = "run" THEN repl ELSE <<e[i]>>)
    IN [name EXCEPT !.ents = F[Len(e)]]

\* re.sub(r'task-[^_]+', 'task-' + task + run_str, new_filename)
SubTask(name, repl) ==
    LET e == name.ents
        F[i \in 0..Len(e)] ==
            IF i = 0 THEN <<>>
            ELSE F[i - 1] \o (IF e[i].k = "task" THEN repl ELSE <<e[i]>>)
    IN [name EXCEPT !.ents = F[Len(e)]]

\* RunStr with the run counter never advanced.
RunStrStuck(r, w) == Ent("run", ZFill(Str(1), w))

\* run_str = '_run-' + str(run).zfill(width), as the token it writes
RunStr(r, w) == Ent("run", ZFill(Str(r), w))

\* T1w and T2w: the session token becomes the run token.
AnatNewFilename(filename, r, w) == SubSes(filename, <<RunStr(r, w)>>)

\* FuncNewFilename done the anatomical way: the session token becomes the
\* run token, and a run token of the source stays.
FuncNewFilenameAsAnat(filename, task, r, w) == SubSes(filename, <<RunStr(r, w)>>)

\* Functional: the session token goes, the run token is replaced or, when
\* the name has none, written after the task token.
FuncNewFilename(filename, task, r, w) ==
    LET new_filename == SubSes(filename, <<>>)
    IN IF HasRun(new_filename)
       THEN SubRun(new_filename, <<RunStr(r, w)>>)
       ELSE SubTask(new_filename, <<Ent("task", task), RunStr(r, w)>>)

\* Field maps: the session token becomes the run token.
FmapNewFilename(filename, r, w) == SubSes(filename, <<RunStr(r, w)>>)

\* Width of the run index of a task with num_tasks files.
TaskWidth(num_tasks) ==
    IF num_tasks > WidthThreshold THEN WideWidth ELSE DefaultWidth

\* The names a layout's configuration can give the entity of the dir-
\* token: the token's own key, or 'direction' as in the BIDS entity table.
DirectionKeys == {"dir", "direction"}

\* f.get_entities(): the entities of the filename under the names the
\* layout gives them.  Only the dir- token's name is read by the program.
GetEntities(f) ==
    [ents |-> [i \in DOMAIN f.name.ents |->
                [k |-> IF f.name.ents[i].k = "dir" THEN direction_key
                       ELSE f.name.ents[i].k,
                 v |-> f.name.ents[i].v]]]

\* direct = f.get_entities().get('dir', 'NODIR').upper()
Direct(f) == Upper(EntityOr(GetEntities(f), "dir", "NODIR"))

-----------------------------------------------------------------------------
(* The dataset and the output tree. *)

BidsDir == "/data/bids"

\* os.path.join(bids_dir, '../niftis_desc-%s' % dataset_name), subject
NewSubjectDir == "/data/niftis_desc-combined/sub-X"
NewAnatDir == NewSubjectDir \o "/anat"
NewFuncDir == NewSubjectDir \o "/func"
NewFmapDir == NewSubjectDir \o "/fmap"

SessionOf(f) == EntityOr(f.name, "ses", None)
TaskOf(f) == EntityOr(f.name, "task", None)

\* f.path: the absolute path of a file of the layout
PathOf(f) ==
    BidsDir \o "/sub-X/ses-" \o SessionOf(f) \o "/" \o f.datatype \o "/"
        \o Render(f.name)

\* re.sub('nii.gz', 'json', path), for a path that ends in the extension
JsonPath(dir, name) == dir \o "/" \o Render([name EXCEPT !.ext = "json"])

\* The order sorted() and pybids list session and task labels in.
LabelOrder == <<"01", "02", "03", "nback", "rest", "stroop">>

Sorted(S) == SelectSeq(LabelOrder, LAMBDA x : x \in S)

\* s.lower(), on the labels, keys and suffixes of the checked inputs
Lower(s) ==
    CASE s = "AP" -> "ap"
      [] s = "PA" -> "pa"
      [] s = "LR" -> "lr"
      [] s = "NODIR" -> "nodir"
      [] s = "T1w" -> "t1w"
      [] s = "T2w" -> "t2w"
      [] s = "X" -> "x"
      [] OTHER -> s

\* The lower-cased texts of the checked inputs, in string order.  None of
\* them begins another, so two names differ first at a whole token.
TextOrder ==
    <<"01", "02", "03", "acq", "anat", "ap", "bold", "dir", "epi", "events",
      "fmap", "func", "hi", "lr", "nback", "nodir", "pa", "phasediff", "rest",
      "run", "sbref", "ses", "stroop", "sub", "t1w", "t2w", "task", "x">>

TextRank(s) == CHOOSE i \in DOMAIN TextOrder : TextOrder[i] = Lower(s)

\* The run indexes of the checked inputs, as written in a filename.
RunIndexText == [n \in 0..(WidthThreshold + 1) |-> Str(n)]

\* int(text), for the run index of a source filename
IntOf(v) == CHOOSE n \in DOMAIN RunIndexText : RunIndexText[n] = v

\* The key the layout orders a file's path by (natural order: text compared
\* without case, a run of digits as a number): the session directory, the
\* datatype directory, then the filename token by token.
PathKey(f) ==
    LET e == f.name.ents
        F[i \in 0..Len(e)] ==
            IF i = 0 THEN <<>>
            ELSE F[i - 1] \o <<TextRank(e[i].k),
                               IF e[i].k = "run" THEN IntOf(e[i].v)
                               ELSE TextRank(e[i].v)>>
    IN <<TextRank(SessionOf(f)), TextRank(f.datatype)>>
        \o F[Len(e)] \o <<TextRank(f.name.suffix)>>

\* Whether key a comes before key b: at the first place they differ, or
\* when a is the beginning of b.
KeyLess(a, b) ==
    \/ \E i \in DOMAIN a \cap DOMAIN b :
            /\ a[i] < b[i]
            /\ \A j \in 1..(i - 1) : a[j] = b[j]
    \/ /\ Len(a) < Len(b)
       /\ \A j \in DOMAIN a : a[j] = b[j]

\* The sort keys of the files, in the files' order.
PathKeys(files) == [i \in DOMAIN files |-> PathKey(files[i])] \o <<>>

\* The place each file takes in the sorted list: after the files with a
\* smaller key, and after the earlier files with an equal key.
Places(keys) ==
    [i \in DOMAIN keys |->
        1 + Cardinality({j \in DOMAIN keys :
                            \/ KeyLess(keys[j], keys[i])
                            \/ keys[j] = keys[i] /\ j < i})] \o <<>>

Placed(files, places) ==
    [p \in DOMAIN files |->
        files[CHOOSE i \in DOMAIN places : places[i] = p]] \o <<>>

\* natural_sort(results, 'path'): the order the layout lists files in.
\* Files with equal keys keep their order.
NaturalSort(files) == Placed(files, Places(PathKeys(files)))

\* layout.get_sessions(subject=participant_label)
GetSessions(lay) == {SessionOf(lay[i]) : i \in DOMAIN lay} \ {None}

\* layout.get_tasks(subject=participant_label, session=session_list)
GetTasks(lay, sessions) ==
    Sorted({TaskOf(lay[i]) : i \in {j \in DOMAIN lay :
                SessionOf(lay[j]) \in Range(sessions)}} \ {None})

\* layout.get(..., session=session, datatype='anat', suffix=suffix,
\*            extension='nii.gz')
GetAnat(lay, session, suffix) ==
    NaturalSort(SelectSeq(lay, LAMBDA f : /\ SessionOf(f) = session
                              /\ f.datatype = "anat"
                              /\ f.name.suffix = suffix
                              /\ f.name.ext = "nii.gz"))

\* layout.get(..., session=session, datatype='fmap', extension='.nii.gz')
GetFmap(lay, session) ==
    NaturalSort(SelectSeq(lay, LAMBDA f : /\ SessionOf(f) = session
                              /\ f.datatype = "fmap"
                              /\ f.name.ext = "nii.gz"))

\* layout.get(..., session=session, task=task, datatype='func',
\*            extension='.nii.gz')
GetFunc(lay, session, task) ==
    NaturalSort(SelectSeq(lay, LAMBDA f : /\ SessionOf(f) = session
                              /\ TaskOf(f) = task
                              /\ f.datatype = "func"
                              /\ f.name.ext = "nii.gz"))

\* Extend putting the new files in front.
ExtendFront(list, subset) == subset \o list

\* list.extend(subset)
Extend(list, subset) == list \o subset

\* UpdateSourceFile as setdefault: a SourceFile of the source sidecar stays.
UpdateSourceFileKeep(json_data, src_nii) ==
    [k \in DOMAIN json_data \cup {"SourceFile"} |->
        IF k \in DOMAIN json_data THEN json_data[k] ELSE src_nii]

\* json_data.update({'SourceFile': src_nii})
UpdateSourceFile(json_data, src_nii) ==
    [k \in DOMAIN json_data \cup {"SourceFile"} |->
        IF k = "SourceFile" THEN src_nii ELSE json_data[k]]

-----------------------------------------------------------------------------
(* The checked inputs: BIDS-valid datasets of subject X and the arguments   *)
(* of interface().  A file of the layout has a name, a datatype, and a      *)
(* sidecar (has_json, meta).                                                *)

Name(ents, suffix, ext) == [ents |-> ents, suffix |-> suffix, ext |-> ext]

File(datatype, name, has_json, meta) ==
    [name |-> name, datatype |-> datatype, has_json |-> has_json, meta |-> meta]

RunEnt(r) == IF r = 0 THEN <<>> ELSE <<Ent("run", Str(r))>>

BasicMeta == [RepetitionTime |-> "2.3"]

FmapMeta(ses) ==
    [IntendedFor |-> "ses-" \o ses \o "/func/sub-X_ses-" \o ses
                        \o "_task-rest_bold.nii.gz",
     EchoTime |-> "0.004"]

\* A sidecar that already has a SourceFile field.
StaleMeta == [SourceFile |-> "/scanner/raw.dcm", IntendedFor |-> "bold.nii.gz"]

AnatFile(ses, suffix, r) ==
    File("anat",
         Name(<<Ent("sub", "X"), Ent("ses", ses)>> \o RunEnt(r), suffix, "nii.gz"),
         TRUE, BasicMeta)

FuncFile(ses, task, acq, r, suffix, has_json) ==
    File("func",
         Name(<<Ent("sub", "X"), Ent("ses", ses), Ent("task", task)>>
                \o (IF acq = "" THEN <<>> ELSE <<Ent("acq", acq)>>) \o RunEnt(r),
              suffix, "nii.gz"),
         has_json, BasicMeta)

\* A task's events file: it has a task entity and is no image.
EventsFile(ses, task) ==
    File("func",
         Name(<<Ent("sub", "X"), Ent("ses", ses), Ent("task", task)>>,
              "events", "tsv"),
         FALSE, BasicMeta)

FmapFile(ses, dir, r, meta) ==
    File("fmap",
         Name(<<Ent("sub", "X"), Ent("ses", ses)>>
                \o (IF dir = "" THEN <<>> ELSE <<Ent("dir", dir)>>) \o RunEnt(r),
              IF dir = "" THEN "phasediff" ELSE "epi", "nii.gz"),
         TRUE, meta)

BothAnat(ses) == <<AnatFile(ses, "T1w", 0), AnatFile(ses, "T2w", 0)>>

\* What a session holds in anat, in listing order.
AnatProfiles(ses) ==
    { <<>>,
      BothAnat(ses),
      <<AnatFile(ses, "T1w", 1), AnatFile(ses, "T1w", 2)>>,
      <<AnatFile(ses, "T2w", 0)>> }

\* What a session holds in func, in listing order.
FuncProfiles(ses) ==
    { <<>>,
      <<FuncFile(ses, "rest", "", 0, "bold", TRUE)>>,
      <<FuncFile(ses, "rest", "", 1, "bold", TRUE),
        FuncFile(ses, "rest", "", 2, "bold", TRUE)>>,
      <<FuncFile(ses, "rest", "", 1, "bold", TRUE),
        FuncFile(ses, "rest", "", 2, "bold", TRUE),
        FuncFile(ses, "rest", "", 3, "bold", TRUE)>>,
      <<FuncFile(ses, "nback", "hi", 1, "bold", TRUE),
        FuncFile(ses, "nback", "", 0, "bold", TRUE),
        FuncFile(ses, "rest", "", 1, "bold", TRUE),
        FuncFile(ses, "rest", "", 1, "sbref", TRUE)>>,
      <<EventsFile(ses, "stroop")>>,
      <<FuncFile(ses, "rest", "", 1, "bold", TRUE),
        FuncFile(ses, "rest", "", 2, "bold", FALSE)>> }

DirLabels == {"", "AP", "PA", "ap", "LR", "NODIR", "nodir"}

\* Field maps of a session with the given direction labels: the first has
\* no run token, the others have their place as run index.  The layout
\* lists them in the natural order of their paths.
FmapsOf(ses, dirseq) ==
    NaturalSort([i \in DOMAIN dirseq |->
        FmapFile(ses, dirseq[i], IF i = 1 THEN 0 ELSE i, FmapMeta(ses))])

SeqsUpTo(S, n) == UNION {[1..k -> S] : k \in 0..n}

Baseline(ses) ==
    <<FmapFile(ses, "", 0, FmapMeta(ses)),
      FuncFile(ses, "rest", "", 0, "bold", TRUE)>>

\* Session selection and anatomy vary; session 02 may be absent.
SelLayouts ==
    {<<>>}
    \cup {NaturalSort(a1 \o Baseline("01")) : a1 \in AnatProfiles("01")}
    \cup {NaturalSort(a1 \o Baseline("01") \o a2 \o Baseline("02")) :
            a1 \in AnatProfiles("01"), a2 \in AnatProfiles("02")}

SelInputs ==
    [layout : SelLayouts,
     session_list : SeqsUpTo({"01", "02", "03"}, MaxSessionList),
     t1 : {None, "01", "02"},
     t2 : {None, "02"}]

\* The functional files vary.
FuncLayouts ==
    {NaturalSort(BothAnat("01") \o f1 \o BothAnat("02") \o f2) :
        f1 \in FuncProfiles("01"), f2 \in FuncProfiles("02")}

FuncInputs ==
    [layout : FuncLayouts,
     session_list : {<<>>, <<"02", "01">>, <<"01", "01">>, <<"01", "02", "01">>},
     t1 : {None},
     t2 : {None}]

\* The field maps vary.
FmapLayouts ==
    {NaturalSort(BothAnat("01") \o FmapsOf("01", d)
        \o <<FmapFile("02", "AP", 0, FmapMeta("02")),
             FmapFile("02", "pa", 0, StaleMeta),
             FmapFile("02", "", 0, FmapMeta("02"))>>) :
        d \in SeqsUpTo(DirLabels, MaxFmaps)}

FmapInputs ==
    [layout : FmapLayouts,
     session_list : {<<>>, <<"02", "01">>},
     t1 : {None},
     t2 : {"01"}]

\* One task has about WidthThreshold runs, another has one.
BigLayouts ==
    {NaturalSort(BothAnat("01")
        \o <<FuncFile("01", "nback", "", 0, "bold", TRUE)>>
        \o [i \in 1..n |-> FuncFile("01", "rest", "", i, "bold", TRUE)]) :
        n \in {WidthThreshold - 1, WidthThreshold, WidthThreshold + 1}}

BigInputs ==
    [layout : BigLayouts, session_list : {<<>>}, t1 : {None}, t2 : {None}]

Inputs == SelInputs \cup FuncInputs \cup FmapInputs \cup BigInputs

Init ==
    /\ \E inp \in Inputs :
        /\ layout = inp.layout
        /\ arg_session_list = inp.session_list
        /\ session_list = inp.session_list
        /\ t1_session_label = inp.t1
        /\ t2_session_label = inp.t2
    /\ direction_key \in DirectionKeys
    /\ pc = "start"
    /\ error = None
    /\ dirs = {}
    /\ niftis = <<>>
    /\ jsons = <<>>
    /\ copies = <<>>
    /\ warnings = <<>>
    /\ task_list = <<>>
    /\ t1w_sessions = <<>>
    /\ t2w_sessions = <<>>
    /\ t1ws = <<>>
    /\ t2ws = <<>>
    /\ all_fmaps = <<>>
    /\ funcs = <<>>
    /\ gen_fmaps = <<>>
    /\ aps = <<>>
    /\ pas = <<>>
    /\ si = 1
    /\ ti = 1
    /\ fi = 1
    /\ run = 1
    /\ width = DefaultWidth

-----------------------------------------------------------------------------
(* make_unisession_files *)

Put(m, k, v) == [x \in DOMAIN m \cup {k} |-> IF x = k THEN v ELSE m[x]]

\* The data file is copied, then the sidecar is read, given its SourceFile
\* and written; open() raises when the source has no sidecar beside it.
MakeUnisessionFiles(f, dest_dir, dest_filename) ==
    LET src_nii == PathOf(f)
        dest_nii == dest_dir \o "/" \o Render(dest_filename)
        dest_json == JsonPath(dest_dir, dest_filename)
    IN /\ copies' = Append(copies, [src |-> f, dest_dir |-> dest_dir,
                                    dest_filename |-> dest_filename])
       /\ niftis' = Put(niftis, dest_nii, src_nii)
       /\ IF f.has_json
          THEN /\ jsons' = Put(jsons, dest_json,
                               UpdateSourceFile(f.meta, src_nii))
               /\ UNCHANGED <<pc, error>>
          ELSE /\ jsons' = jsons
               /\ pc' = "failed"
               /\ error' = "FileNotFoundError"

-----------------------------------------------------------------------------
(* interface *)

inputs == <<layout, direction_key, arg_session_list, t1_session_label,
            t2_session_label>>
output == <<dirs, niftis, jsons, copies>>
collected == <<t1ws, t2ws, all_fmaps, funcs>>
fmap_groups == <<gen_fmaps, aps, pas>>

Fail(e) == pc' = "failed" /\ error' = e

\* Lines 188-217: the subject directory and anat are made first.
MakeOutputDirs ==
    /\ pc = "start"
    /\ dirs' = dirs \cup {NewSubjectDir, NewAnatDir}
    /\ pc' = "select"
    /\ UNCHANGED <<inputs, session_list, error, niftis, jsons, copies, warnings,
                   task_list, t1w_sessions, t2w_sessions, collected,
                   fmap_groups, si, ti, fi, run, width>>

\* Lines 221-242: the subject and the sessions asked for must exist; with no
\* list given the sessions found are used, sorted.
SelectSessions ==
    /\ pc = "select"
    /\ LET all_sessions == GetSessions(layout)
       IN IF layout = <<>>
          THEN /\ Fail("AssertionError: subject")
               /\ UNCHANGED <<session_list, task_list>>
          ELSE IF session_list # <<>>
          THEN IF \A i \in DOMAIN session_list : session_list[i] \in all_sessions
               THEN /\ task_list' = GetTasks(layout, session_list)
                    /\ pc' = "anat_sessions"
                    /\ UNCHANGED <<session_list, error>>
               ELSE /\ Fail("AssertionError: session")
                    /\ UNCHANGED <<session_list, task_list>>
          ELSE /\ session_list' = Sorted(all_sessions)
               /\ task_list' = GetTasks(layout, session_list')
               /\ pc' = "anat_sessions"
               /\ UNCHANGED error
    /\ UNCHANGED <<inputs, output, warnings, t1w_sessions, t2w_sessions,
                   collected, fmap_groups, si, ti, fi, run, width>>

\* The sessions a T1w or T2w label selects: all of them, or the one named.
AnatSessions(label) == IF label = None THEN session_list ELSE <<label>>

\* Lines 244-268
ResolveAnatSessions ==
    /\ pc = "anat_sessions"
    /\ IF t1_session_label # None /\ t1_session_label \notin Range(session_list)
       THEN /\ Fail("AssertionError: T1w session")
            /\ UNCHANGED <<t1w_sessions, t2w_sessions, funcs>>
       ELSE IF t2_session_label # None /\ t2_session_label \notin Range(session_list)
       THEN /\ Fail("AssertionError: T2w session")
            /\ t1w_sessions' = AnatSessions(t1_session_label)
            /\ UNCHANGED <<t2w_sessions, funcs>>
       ELSE /\ t1w_sessions' = AnatSessions(t1_session_label)
            /\ t2w_sessions' = AnatSessions(t2_session_label)
            /\ funcs' = [task \in Range(task_list) |-> <<>>]
            /\ pc' = "collect"
            /\ UNCHANGED error
    /\ UNCHANGED <<inputs, session_list, output, warnings, task_list, t1ws,
                   t2ws, all_fmaps, fmap_groups, si, ti, fi, run, width>>

\* Lines 271-285: one session of the loop.
CollectSession ==
    /\ pc = "collect"
    /\ si <= Len(session_list)
    /\ LET session == session_list[si]
       IN /\ t1ws' = IF session \in Range(t1w_sessions)
                     THEN Extend(t1ws, GetAnat(layout, session, "T1w"))
                     ELSE t1ws
          /\ t2ws' = IF session \in Range(t2w_sessions)
                     THEN Extend(t2ws, GetAnat(layout, session, "T2w"))
                     ELSE t2ws
          /\ all_fmaps' = Extend(all_fmaps, GetFmap(layout, session))
          /\ funcs' = [task \in DOMAIN funcs |->
                          Extend(funcs[task], GetFunc(layout, session, task))]
    /\ si' = si + 1
    /\ UNCHANGED <<inputs, session_list, pc, error, output, warnings, task_list,
                   t1w_sessions, t2w_sessions, fmap_groups, ti, fi, run, width>>

\* CheckAnat with the T2w assertion put after the T1w loop: the T1w files
\* are copied before the missing T2w data ends the run.
CheckAnatAfterT1w ==
    /\ pc = "collect"
    /\ si > Len(session_list)
    /\ IF Len(t1ws) = 0
       THEN Fail("AssertionError: No T1w") /\ UNCHANGED <<warnings, fi, output>>
       ELSE IF Len(t2ws) = 0
       THEN LET reqs == [k \in DOMAIN t1ws |->
                            [src |-> t1ws[k], dest_dir |-> NewAnatDir,
                             dest_filename |->
                                AnatNewFilename(t1ws[k].name, k, DefaultWidth)]]
            IN /\ Fail("AssertionError: No T2w")
               /\ copies' = copies \o reqs
               /\ niftis' = [p \in {NewAnatDir \o "/" \o Render(reqs[k].dest_filename) :
                                        k \in DOMAIN reqs} |-> "copied"]
               /\ UNCHANGED <<warnings, fi, dirs, jsons>>
       ELSE /\ warnings' = warnings
                \o (IF DOMAIN funcs = {} THEN <<[what |-> "only anatomical data"]>>
                    ELSE <<>>)
                \o (IF Len(all_fmaps) = 0 THEN <<[what |-> "no fmap data"]>>
                    ELSE <<>>)
            /\ pc' = "t1w"
            /\ fi' = 1
            /\ UNCHANGED <<error, output>>
    /\ width' = DefaultWidth
    /\ run' = 1
    /\ UNCHANGED <<inputs, session_list, task_list, t1w_sessions,
                   t2w_sessions, collected, fmap_groups, si, ti>>

\* Lines 287-298: both anatomical lists must hold a file; no functional
\* task and no field map are warnings.
CheckAnat ==
    /\ pc = "collect"
    /\ si > Len(session_list)
    /\ IF Len(t1ws) = 0
       THEN Fail("AssertionError: No T1w") /\ UNCHANGED <<warnings, fi>>
       ELSE IF Len(t2ws) = 0
       THEN Fail("AssertionError: No T2w") /\ UNCHANGED <<warnings, fi>>
       ELSE /\ warnings' = warnings
                \o (IF DOMAIN funcs = {} THEN <<[what |-> "only anatomical data"]>>
                    ELSE <<>>)
                \o (IF Len(all_fmaps) = 0 THEN <<[what |-> "no fmap data"]>>
                    ELSE <<>>)
            /\ pc' = "t1w"
            /\ fi' = 1
            /\ UNCHANGED error
    /\ width' = DefaultWidth
    /\ run' = 1
    /\ UNCHANGED <<inputs, session_list, output, task_list, t1w_sessions,
                   t2w_sessions, collected, fmap_groups, si, ti>>

\* Lines 299-303: one T1w file of the loop.
CopyT1w ==
    /\ pc = "t1w"
    /\ fi <= Len(t1ws)
    /\ LET t == t1ws[fi]
       IN /\ MakeUnisessionFiles(t, NewAnatDir, AnatNewFilename(t.name, run, width))
          /\ run' = IF t.has_json THEN run + 1 ELSE run
    /\ fi' = fi + 1
    /\ UNCHANGED <<inputs, session_list, dirs, warnings, task_list, t1w_sessions,
                   t2w_sessions, collected, fmap_groups, si, ti, width>>

\* Line 305
EndT1w ==
    /\ pc = "t1w"
    /\ fi > Len(t1ws)
    /\ run' = 1
    /\ fi' = 1
    /\ pc' = "t2w"
    /\ UNCHANGED <<inputs, session_list, error, output, warnings, task_list,
                   t1w_sessions, t2w_sessions, collected, fmap_groups, si, ti,
                   width>>

\* Lines 306-310: one T2w file of the loop.
CopyT2w ==
    /\ pc = "t2w"
    /\ fi <= Len(t2ws)
    /\ LET t == t2ws[fi]
       IN /\ MakeUnisessionFiles(t, NewAnatDir, AnatNewFilename(t.name, run, width))
          /\ run' = IF t.has_json THEN run + 1 ELSE run
    /\ fi' = fi + 1
    /\ UNCHANGED <<inputs, session_list, dirs, warnings, task_list, t1w_sessions,
                   t2w_sessions, collected, fmap_groups, si, ti, width>>

\* Lines 312-314: func is made when the task list is not empty.
MakeFuncDir ==
    /\ pc = "t2w"
    /\ fi > Len(t2ws)
    /\ dirs' = IF Cardinality(DOMAIN funcs) > 0 THEN dirs \cup {NewFuncDir} ELSE dirs
    /\ ti' = 1
    /\ pc' = "task"
    /\ UNCHANGED <<inputs, session_list, error, niftis, jsons, copies, warnings,
                   task_list, t1w_sessions, t2w_sessions, collected,
                   fmap_groups, si, fi, run, width>>

\* Lines 316-325: the width and the first run number of one task.
BeginTask ==
    /\ pc = "task"
    /\ ti <= Len(task_list)
    /\ width' = TaskWidth(Len(funcs[task_list[ti]]))
    /\ run' = 1
    /\ fi' = 1
    /\ pc' = "func"
    /\ UNCHANGED <<inputs, session_list, error, output, warnings, task_list,
                   t1w_sessions, t2w_sessions, collected, fmap_groups, si, ti>>

\* Lines 326-340: one file of the task.
CopyFunc ==
    /\ pc = "func"
    /\ fi <= Len(funcs[task_list[ti]])
    /\ LET task == task_list[ti]
           f == funcs[task][fi]
       IN MakeUnisessionFiles(f, NewFuncDir,
                              FuncNewFilename(f.name, task, run, width))
    /\ run' = run + 1
    /\ fi' = fi + 1
    /\ UNCHANGED <<inputs, session_list, dirs, warnings, task_list, t1w_sessions,
                   t2w_sessions, collected, fmap_groups, si, ti, width>>

\* The task's loop ends: the next task.
EndTask ==
    /\ pc = "func"
    /\ fi > Len(funcs[task_list[ti]])
    /\ ti' = ti + 1
    /\ pc' = "task"
    /\ UNCHANGED <<inputs, session_list, error, output, warnings, task_list,
                   t1w_sessions, t2w_sessions, collected, fmap_groups, si, fi,
                   run, width>>

\* Lines 342-351: fmap is made when a field map was collected.
MakeFmapDir ==
    /\ pc = "task"
    /\ ti > Len(task_list)
    /\ width' = DefaultWidth
    /\ IF Len(all_fmaps) > 0
       THEN /\ dirs' = dirs \cup {NewFmapDir}
            /\ gen_fmaps' = <<>>
            /\ aps' = <<>>
            /\ pas' = <<>>
            /\ fi' = 1
            /\ pc' = "fmap"
       ELSE /\ pc' = "done"
            /\ UNCHANGED <<dirs, fmap_groups, fi>>
    /\ UNCHANGED <<inputs, session_list, error, niftis, jsons, copies, warnings,
                   task_list, t1w_sessions, t2w_sessions, collected, si, ti, run>>

\* Lines 353-375: one field map of the loop.
CopyFmap ==
    /\ pc = "fmap"
    /\ fi <= Len(all_fmaps)
    /\ LET f == all_fmaps[fi]
           direct == Direct(f)
           n == CASE direct = "PA" -> Len(pas) + 1
                  [] direct = "AP" -> Len(aps) + 1
                  [] OTHER -> Len(gen_fmaps) + 1
       IN /\ pas' = IF direct = "PA" THEN Append(pas, f) ELSE pas
          /\ aps' = IF direct = "AP" THEN Append(aps, f) ELSE aps
          /\ gen_fmaps' = IF direct \notin {"PA", "AP"}
                          THEN Append(gen_fmaps, f) ELSE gen_fmaps
          /\ warnings' = IF direct \notin {"PA", "AP", "NODIR"}
                         THEN Append(warnings,
                                [what |-> "direction not recognized",
                                 value |-> direct])
                         ELSE warnings
          /\ MakeUnisessionFiles(f, NewFmapDir, FmapNewFilename(f.name, n, width))
    /\ fi' = fi + 1
    /\ UNCHANGED <<inputs, session_list, dirs, task_list, t1w_sessions,
                   t2w_sessions, collected, si, ti, run, width>>

\* The end of interface().
Finish ==
    /\ pc = "fmap"
    /\ fi > Len(all_fmaps)
    /\ pc' = "done"
    /\ UNCHANGED <<inputs, session_list, error, output, warnings, task_list,
                   t1w_sessions, t2w_sessions, collected, fmap_groups, si, ti,
                   fi, run, width>>

Next ==
    \/ MakeOutputDirs
    \/ SelectSessions
    \/ ResolveAnatSessions
    \/ CollectSession
    \/ CheckAnat
    \/ CopyT1w
    \/ EndT1w
    \/ CopyT2w
    \/ MakeFuncDir
    \/ BeginTask
    \/ CopyFunc
    \/ EndTask
    \/ MakeFmapDir
    \/ CopyFmap
    \/ Finish

Spec == Init /\ [][Next]_vars

-----------------------------------------------------------------------------
(* What the claims speak of. *)

Terminated == pc \in {"done", "failed"}

\* The run groups: T1w, T2w, one per task, and the three field-map sub-groups.
Groups ==
    {[kind |-> "anat", key |-> x] : x \in {"T1w", "T2w"}}
    \cup {[kind |-> "func", key |-> x] : x \in {"nback", "rest", "stroop"}}
    \cup {[kind |-> "fmap", key |-> x] : x \in {"AP", "PA", "generic"}}

\* The sub-group interface() puts a field map in.
FmapGroupOf(f) ==
    CASE Direct(f) = "AP" -> "AP"
      [] Direct(f) = "PA" -> "PA"
      [] OTHER -> "generic"

\* The sub-group the spec gives a field map: by the direction its name is
\* tagged with, upper-cased; absent or anything else is generic.
FmapClass(f) ==
    LET d == EntityOr(f.name, "dir", None)
    IN IF d # None /\ Upper(d) = "AP" THEN "AP"
       ELSE IF d # None /\ Upper(d) = "PA" THEN "PA"
       ELSE "generic"

InGroup(g, f) ==
    /\ f.name.ext = "nii.gz"
    /\ f.datatype = g.kind
    /\ CASE g.kind = "anat" -> f.name.suffix = g.key
         [] g.kind = "func" -> TaskOf(f) = g.key
         [] g.kind = "fmap" -> FmapGroupOf(f) = g.key

\* Whether the file's session contributes to the group: a T1w or T2w
\* override narrows the anatomical groups to one session.
Contributes(g, f) ==
    /\ (g.kind = "anat" /\ g.key = "T1w") => t1_session_label \in {None, SessionOf(f)}
    /\ (g.kind = "anat" /\ g.key = "T2w") => t2_session_label \in {None, SessionOf(f)}

\* The files of a group in traversal order: the resolved session list first,
\* the layout's listing order within a session second.
Traversal(g) ==
    LET F[i \in 0..Len(session_list)] ==
            IF i = 0 THEN <<>>
            ELSE F[i - 1] \o SelectSeq(layout, LAMBDA f :
                    /\ SessionOf(f) = session_list[i]
                    /\ InGroup(g, f)
                    /\ Contributes(g, f))
    IN F[Len(session_list)]

\* The copy requests of a group, in the order issued.
CopiesOf(g) == SelectSeq(copies, LAMBDA c : InGroup(g, c.src))

DestPath(c) == c.dest_dir \o "/" \o Render(c.dest_filename)

\* The value of the run token a destination name got (its first one).
WrittenRun(c) == EntityOr(c.dest_filename, "run", None)

\* A string of digits that reads as the number k.
Denotes(v, k) == \E pad \in {"", "0", "00", "000"} : v = pad \o Str(k)

RunTokens(name) == {i \in DOMAIN name.ents : name.ents[i].k = "run"}

Without(name, keys) == SelectSeq(name.ents, LAMBDA e : e.k \notin keys)

-----------------------------------------------------------------------------
\* C1: in every group the k-th copy request is for the k-th file of the
\* group in traversal order (session-list order, then listing order) and
\* writes run number k; a run that ends well has copied the whole group, so
\* the numbers written are exactly 1..N.
C1_RunNumbersFollowTraversal ==
    pc \in {"t1w", "t2w", "task", "func", "fmap", "done", "failed"} =>
        \A g \in Groups :
            LET want == Traversal(g)
                got == CopiesOf(g)
            IN /\ Len(got) <= Len(want)
               /\ \A k \in DOMAIN got :
                    /\ got[k].src = want[k]
                    /\ Denotes(WrittenRun(got[k]), k)
               /\ pc = "done" => Len(got) = Len(want)

\* Sessions 01 and 02 with 2 and 3 rest runs: run-01..run-05, 01's first.
C1_Witness ==
    LET got == CopiesOf([kind |-> "func", key |-> "rest"])
    IN /\ pc = "done"
       /\ session_list = <<"01", "02">>
       /\ Len(got) = 5
       /\ \A k \in 1..2 : SessionOf(got[k].src) = "01"
       /\ \A k \in 3..5 : SessionOf(got[k].src) = "02"
       /\ Render(got[1].dest_filename) = "sub-X_task-rest_run-01_bold.nii.gz"
       /\ Render(got[5].dest_filename) = "sub-X_task-rest_run-05_bold.nii.gz"

\* C2: no two copy requests have the same destination path, whatever their
\* groups, so no written file is overwritten: each request has a data file
\* of its own in the output tree.
C2_NoCollision ==
    /\ \A i, j \in DOMAIN copies :
            i # j => DestPath(copies[i]) # DestPath(copies[j])
    /\ Cardinality(DOMAIN niftis) = Len(copies)
    /\ \A i \in DOMAIN copies :
            niftis[DestPath(copies[i])] = PathOf(copies[i].src)

\* Two groups of one directory both wrote run number 1, and so did a second
\* directory's groups.
C2_Witness ==
    /\ pc = "done"
    /\ \E i, j \in DOMAIN copies :
        /\ copies[i].dest_dir = NewAnatDir /\ copies[j].dest_dir = NewAnatDir
        /\ copies[i].src.name.suffix # copies[j].src.name.suffix
        /\ WrittenRun(copies[i]) = "01" /\ WrittenRun(copies[j]) = "01"
    /\ \E i, j \in DOMAIN copies :
        /\ copies[i].dest_dir = NewFuncDir /\ copies[j].dest_dir = NewFuncDir
        /\ TaskOf(copies[i].src) # TaskOf(copies[j].src)
        /\ WrittenRun(copies[i]) = "01" /\ WrittenRun(copies[j]) = "01"

\* The field-map copy requests up to the i-th that fall in the i-th's class.
SameClassUpTo(i) ==
    {j \in 1..i : /\ copies[j].dest_dir = NewFmapDir
                  /\ FmapClass(copies[j].src) = FmapClass(copies[i].src)}

\* C3: a field map is put in the sub-group its direction attribute gives
\* after upper-casing (AP, PA, otherwise generic), and gets the next run
\* number of that sub-group alone, counted from 1.
C3_FmapClassification ==
    \A i \in DOMAIN copies :
        copies[i].dest_dir = NewFmapDir =>
            LET f == copies[i].src
                k == Cardinality(SameClassUpTo(i))
                group == CASE FmapClass(f) = "AP" -> aps
                           [] FmapClass(f) = "PA" -> pas
                           [] OTHER -> gen_fmaps
            IN /\ Denotes(WrittenRun(copies[i]), k)
               /\ k <= Len(group)
               /\ group[k] = f
               /\ Len(aps) + Len(pas) + Len(gen_fmaps)
                    = Cardinality({j \in DOMAIN copies :
                                        copies[j].dest_dir = NewFmapDir})

\* C4: a functional destination name has exactly one run token and no
\* session token; a source name without a run token gets it right after
\* its task token; every other token stays as it was, in its place.
C4_FuncOneRunToken ==
    \A i \in DOMAIN copies :
        copies[i].dest_dir = NewFuncDir =>
            LET src == copies[i].src.name
                dest == copies[i].dest_filename
            IN /\ Cardinality(RunTokens(dest)) = 1
               /\ \A n \in DOMAIN dest.ents : dest.ents[n].k # "ses"
               /\ Without(dest, {"run"}) = Without(src, {"ses", "run"})
               /\ dest.suffix = src.suffix /\ dest.ext = src.ext
               /\ RunTokens(src) = {} =>
                    \E n \in DOMAIN dest.ents :
                        /\ dest.ents[n].k = "task"
                        /\ RunTokens(dest) = {n + 1}
               /\ RunTokens(src) # {} =>
                    \A n \in RunTokens(dest) :
                        Without(src, {"ses"})[n].k = "run"

\* A task's name without a run token and another with one were both copied.
C4_Witness ==
    /\ pc = "done"
    /\ \E i, j \in DOMAIN copies :
        /\ copies[i].dest_dir = NewFuncDir /\ copies[j].dest_dir = NewFuncDir
        /\ RunTokens(copies[i].src.name) = {}
        /\ Render(copies[i].dest_filename) = "sub-X_task-nback_run-02_bold.nii.gz"
        /\ Render(copies[j].src.name) = "sub-X_ses-01_task-nback_acq-hi_run-1_bold.nii.gz"
        /\ Render(copies[j].dest_filename) = "sub-X_task-nback_acq-hi_run-01_bold.nii.gz"

\* C5: a written metadata file has the fields of the source sidecar and
\* SourceFile, no other; SourceFile is the source data file's path and every
\* other field has the source's value (IntendedFor too).
C5_MetadataKept ==
    \A i \in DOMAIN copies :
        copies[i].src.has_json =>
            LET src == copies[i].src
                dest_json == JsonPath(copies[i].dest_dir, copies[i].dest_filename)
            IN /\ dest_json \in DOMAIN jsons
               /\ DOMAIN jsons[dest_json] = DOMAIN src.meta \cup {"SourceFile"}
               /\ jsons[dest_json]["SourceFile"] = PathOf(src)
               /\ \A key \in DOMAIN src.meta \ {"SourceFile"} :
                    jsons[dest_json][key] = src.meta[key]

\* A field map whose sidecar had IntendedFor and an old SourceFile was
\* written.
C5_Witness ==
    \E i \in DOMAIN copies :
        /\ copies[i].src.meta = StaleMeta
        /\ jsons[JsonPath(copies[i].dest_dir, copies[i].dest_filename)]
            = [SourceFile |-> "/data/bids/sub-X/ses-02/fmap/sub-X_ses-02_dir-pa_epi.nii.gz",
               IntendedFor |-> "bold.nii.gz"]

ValidationErrors ==
    {"AssertionError: session", "AssertionError: T1w session",
     "AssertionError: T2w session", "AssertionError: No T1w",
     "AssertionError: No T2w"}

\* C6: a run that a validation ends (unknown session in the list, T1w or
\* T2w override outside the list, no T1w, no T2w) has issued no copy and
\* written no data or metadata file.
C6_ValidationBeforeCopy ==
    (pc = "failed" /\ error \in ValidationErrors) =>
        /\ copies = <<>>
        /\ DOMAIN niftis = {}
        /\ DOMAIN jsons = {}

\* T1w files were collected and there is no T2w file: the run has failed.
C6_Witness ==
    /\ pc = "failed"
    /\ error = "AssertionError: No T2w"
    /\ Len(t1ws) > 0

\* C7: the run indices of a task with N files all have 2 digits when
\* N <= 100 and 3 digits when N > 100.
C7_WidthByTaskSize ==
    pc = "done" =>
        \A g \in {x \in Groups : x.kind = "func"} :
            LET got == CopiesOf(g)
            IN \A k \in DOMAIN got :
                Len(WrittenRun(got[k])) = IF Len(got) <= 100 THEN 2 ELSE 3

\* C8: a field map whose direction attribute is present and is neither AP
\* nor PA, whatever its case, is copied in the generic sub-group with a
\* warning that names the value; one with no attribute is copied in the
\* generic sub-group with no warning.
C8_UnknownDirectionWarned ==
    /\ \A i \in DOMAIN copies :
        LET f == copies[i].src
            d == EntityOr(f.name, "dir", None)
        IN (copies[i].dest_dir = NewFmapDir /\ d # None
                /\ Upper(d) \notin {"AP", "PA"}) =>
              /\ f \in Range(gen_fmaps)
              /\ \E n \in DOMAIN warnings :
                    /\ warnings[n].what = "direction not recognized"
                    /\ warnings[n].value = Upper(d)
    /\ (\A i \in DOMAIN all_fmaps : EntityOr(all_fmaps[i].name, "dir", None) = None)
            => \A n \in DOMAIN warnings :
                    warnings[n].what # "direction not recognized"

\* C9: when the run has ended, well or not, each of anat, func and fmap
\* that was made has received a file.
C9_NoEmptySubdirectory ==
    Terminated =>
        \A d \in {NewAnatDir, NewFuncDir, NewFmapDir} :
            d \in dirs => \E i \in DOMAIN copies : copies[i].dest_dir = d

\* C10: with an explicit session list that was accepted, a run that ends
\* well has copied no source file twice: the output pairs are as many as
\* the distinct source files collected.
C10_EachSourceOnce ==
    (pc = "done" /\ arg_session_list # <<>>) =>
        /\ \A i, j \in DOMAIN copies :
            PathOf(copies[i].src) = PathOf(copies[j].src) => i = j
        /\ Cardinality(DOMAIN niftis)
            = Cardinality({PathOf(copies[i].src) : i \in DOMAIN copies})

====
